---- MODULE Spec2Model ----
(***************************************************************************)
(* CanvasText: word-wrapped text layout on a canvas.                       *)
(*                                                                         *)
(* Two revisions of the engine are modelled: the current one               *)
(* (src/unnamed/part_000) and the earlier one (src/CanvasText.js), whose   *)
(* definitions carry the prefix old.                                       *)
(*                                                                         *)
(* Values.  A JavaScript string is a sequence of one-character strings.    *)
(* A property that may be undefined is a sequence of length at most one:   *)
(* <<>> is undefined and <<v>> is the value v.  Lengths are integers.      *)
(* A font family is a name; a font string is the record of its parts.      *)
(***************************************************************************)
EXTENDS Integers, Sequences, FiniteSets

VARIABLES
    fontHeightCache,     \* CanvasText.fontHeightCache: font -> optional height
    fontOffsetCache,     \* CanvasText.fontOffsetCache: font -> optional offset
    fontDescenderCache,  \* CanvasText.fontDescenderCache: font -> optional height
    thisPadding,         \* CanvasText._padding, written by drawText
    saveDepth,           \* context.save() calls not yet matched by restore()
    measured,            \* history: runs of canvasFontHeight by fontHeight, per font
    call                 \* history: the last call, its arguments and result

vars == <<fontHeightCache, fontOffsetCache, fontDescenderCache, thisPadding,
          saveDepth, measured, call>>

----------------------------------------------------------------------------
(* Bounds of the model *)

\* longest text, in characters
MaxLen == 5
\* widest canvas, in units; widths range over -1 .. MaxWidth
MaxWidth == 5
\* largest padding length
MaxPad == 1
\* most context.save() calls left unmatched
MaxDepth == 2
\* most runs of canvasFontHeight per font
MaxMeasure == 2

----------------------------------------------------------------------------
(* Optional values and JavaScript's tests on them *)

Undef == <<>>

Def(v) == <<v>>

\* typeof x !== 'undefined'
IsDef(o) == o # <<>>

\* the truthiness of an optional number: undefined and 0 are falsy
Truthy(o) == o # <<>> /\ o[1] # 0

Opt(S) == {Undef} \cup {Def(v) : v \in S}

----------------------------------------------------------------------------
(* Strings *)

Space == " "

\* the characters texts are drawn from
Alphabet == {Space, "a", "b"}

RECURSIVE SeqsUpTo(_, _)
SeqsUpTo(S, n) ==
    IF n = 0 THEN {<<>>}
    ELSE LET shorter == SeqsUpTo(S, n - 1)
         IN  shorter \cup {Append(s, c) : s \in {t \in shorter : Len(t) = n - 1}, c \in S}

Texts == SeqsUpTo(Alphabet, MaxLen)

\* String.prototype.split(/ /): the pieces between single spaces, empty
\* pieces kept; the empty string splits into one empty piece
RECURSIVE SplitFrom(_, _, _)
SplitFrom(text, i, word) ==
    IF i > Len(text) THEN <<word>>
    ELSE IF text[i] = Space THEN <<word>> \o SplitFrom(text, i + 1, <<>>)
    ELSE SplitFrom(text, i + 1, Append(word, text[i]))

Split(text) == SplitFrom(text, 1, <<>>)

\* Array.prototype.join(' ')
RECURSIVE Join(_)
Join(ws) ==
    IF Len(ws) = 0 THEN <<>>
    ELSE IF Len(ws) = 1 THEN ws[1]
    ELSE ws[1] \o <<Space>> \o Join(Tail(ws))

----------------------------------------------------------------------------
(* The drawing surface's text measurement *)

\* the advance of one glyph
CharWidth(c) == IF c = "b" THEN 2 ELSE 1

\* context.measureText(text).width: the sum of the glyphs' advances
RECURSIVE measureText(_)
measureText(text) ==
    IF Len(text) = 0 THEN 0 ELSE CharWidth(text[1]) + measureText(Tail(text))

----------------------------------------------------------------------------
(* Word wrap, current revision *)

\* calculateRowWidth leaving the padding out
calculateRowWidthNoPadding(pad, text) == measureText(text)

calculateRowWidth(pad, text) == measureText(text) + pad.left + pad.right

\* words.forEach(...) and the final push, from word i on; rowWords is the
\* open row and rows the rows closed so far
RECURSIVE WrapWords(_, _, _, _, _, _)
WrapWords(pad, width, words, i, rowWords, rows) ==
    IF i > Len(words) THEN
        IF Len(rowWords) > 0 THEN Append(rows, Join(rowWords)) ELSE rows
    ELSE
        LET word == words[i]
            rowWidth == calculateRowWidth(pad, Join(Append(rowWords, word)))
        IN  IF rowWidth >= width /\ Len(rowWords) > 0
            THEN WrapWords(pad, width, words, i + 1, <<word>>,
                           Append(rows, Join(rowWords)))
            ELSE WrapWords(pad, width, words, i + 1,
                           Append(rowWords, word), rows)

\* the loop closing a row whether or not it holds a word
RECURSIVE WrapWordsUnguarded(_, _, _, _, _, _)
WrapWordsUnguarded(pad, width, words, i, rowWords, rows) ==
    IF i > Len(words) THEN
        IF Len(rowWords) > 0 THEN Append(rows, Join(rowWords)) ELSE rows
    ELSE
        LET word == words[i]
            rowWidth == calculateRowWidth(pad, Join(Append(rowWords, word)))
        IN  IF rowWidth >= width
            THEN WrapWordsUnguarded(pad, width, words, i + 1, <<word>>,
                                    Append(rows, Join(rowWords)))
            ELSE WrapWordsUnguarded(pad, width, words, i + 1,
                                    Append(rowWords, word), rows)

makeWordWrapRowsUnguarded(pad, width, text) ==
    WrapWordsUnguarded(pad, width, Split(text), 1, <<>>, <<>>)

makeWordWrapRows(pad, width, text) ==
    WrapWords(pad, width, Split(text), 1, <<>>, <<>>)

----------------------------------------------------------------------------
(* Word wrap, earlier revision (src/CanvasText.js) *)

oldCalculateRowWidth(paddingLeft, paddingRight, text) ==
    measureText(text) + (paddingLeft + paddingRight)

\* words.forEach(...) and the final push, from word i on; rowWidth is the
\* running width of the open row
RECURSIVE oldWrapWords(_, _, _, _, _, _, _, _)
oldWrapWords(pl, pr, width, words, i, rowWidth, rowWords, rows) ==
    IF i > Len(words) THEN
        IF Len(rowWords) > 0 THEN Append(rows, Join(rowWords)) ELSE rows
    ELSE
        LET word == words[i]
            w == measureText(word)
            closing == rowWidth + w >= width
            rowWords1 == IF closing THEN <<word>> ELSE Append(rowWords, word)
            rows1 == IF closing THEN Append(rows, Join(rowWords)) ELSE rows
        IN  oldWrapWords(pl, pr, width, words, i + 1,
                         oldCalculateRowWidth(pl, pr, Join(rowWords1)),
                         rowWords1, rows1)

oldMakeWordWrapRows(pl, pr, width, text) ==
    oldWrapWords(pl, pr, width, Split(text), 1,
                 oldCalculateRowWidth(pl, pr, <<>>), <<>>, <<>>)

----------------------------------------------------------------------------
(* Style resolution *)

DEFAULT_FONT_SIZE == 12

DEFAULT_FONT_FAMILY == "Comic Sans MS"

\* A font string is the pair of its leading integer, if it has one, and the
\* family it names: fontSize + "pt '" + fontFamily + "'" has both
FontString(size, family) == [size |-> Def(size), family |-> family]

\* the empty string as a font: no leading integer, no family
EmptyFontString == [size |-> Undef, family |-> ""]

\* a string property is truthy when it is present and not the empty string
TruthyFont(o) == o # <<>> /\ o[1] # EmptyFontString

TruthyString(o) == o # <<>> /\ o[1] # ""

\* parseInt of a font string: its leading integer, none (NaN) when the
\* string has none
parseIntFont(font) == font.size

resolveFont(object) ==
    IF TruthyFont(object.font) THEN object.font[1]
    ELSE LET fontSize == IF Truthy(object.fontSize) THEN object.fontSize[1]
                         ELSE DEFAULT_FONT_SIZE
             fontFamily == IF TruthyString(object.fontFamily) THEN object.fontFamily[1]
                           ELSE DEFAULT_FONT_FAMILY
         IN  FontString(fontSize, fontFamily)

\* resolvePadding testing each property for truthiness
resolvePaddingTruthy(object) ==
    LET defaultPadding == IF Truthy(object.padding) THEN object.padding[1] ELSE 0
        side(o) == IF Truthy(o) THEN o[1] ELSE defaultPadding
    IN  [left   |-> side(object.paddingLeft),
         right  |-> side(object.paddingRight),
         top    |-> side(object.paddingTop),
         bottom |-> side(object.paddingBottom)]

resolvePadding(object) ==
    LET defaultPadding == IF IsDef(object.padding) THEN object.padding[1] ELSE 0
        side(o) == IF IsDef(o) THEN o[1] ELSE defaultPadding
    IN  [left   |-> side(object.paddingLeft),
         right  |-> side(object.paddingRight),
         top    |-> side(object.paddingTop),
         bottom |-> side(object.paddingBottom)]

\* if (object.shadowOffset): undefined and 0 both take the else branch
resolveShadowOffset(object) ==
    IF Truthy(object.shadowOffset)
    THEN [x |-> object.shadowOffset, y |-> object.shadowOffset]
    ELSE [x |-> object.shadowOffsetX, y |-> object.shadowOffsetY]

HexDigits == <<"0", "1", "2", "3", "4", "5", "6", "7", "8", "9",
               "a", "b", "c", "d", "e", "f">>

UpperHexDigits == <<"0", "1", "2", "3", "4", "5", "6", "7", "8", "9",
                    "A", "B", "C", "D", "E", "F">>

\* [a-f\d] under the i flag
IsHexDigit(c) == \E k \in 1..16 : HexDigits[k] = c \/ UpperHexDigits[k] = c

HexValue(c) == (CHOOSE k \in 1..16 : HexDigits[k] = c \/ UpperHexDigits[k] = c) - 1

\* /^#?([a-f\d]{2})([a-f\d]{2})([a-f\d]{2})$/i.exec(color): the three groups,
\* or <<>> for null
HexExec(color) ==
    LET digits == IF Len(color) > 0 /\ color[1] = "#" THEN Tail(color) ELSE color
    IN  IF Len(digits) = 6 /\ \A k \in 1..6 : IsHexDigit(digits[k])
        THEN <<SubSeq(digits, 1, 2), SubSeq(digits, 3, 4), SubSeq(digits, 5, 6)>>
        ELSE <<>>

\* parseInt(group, 16)
parseIntHex(group) == 16 * HexValue(group[1]) + HexValue(group[2])

\* The result of resolveColor: threw is TRUE when result[1] is read off a
\* null match (a TypeError); otherwise value is the color returned
resolveColor(color, alpha) ==
    IF IsDef(alpha) THEN
        LET result == HexExec(color)
        IN  IF result = <<>> THEN [threw |-> TRUE]
            ELSE [threw |-> FALSE,
                  value |-> [kind |-> "rgba",
                             r |-> parseIntHex(result[1]),
                             g |-> parseIntHex(result[2]),
                             b |-> parseIntHex(result[3]),
                             a |-> alpha[1]]]
    ELSE [threw |-> FALSE, value |-> [kind |-> "verbatim", color |-> color]]

----------------------------------------------------------------------------
(* Font metrics *)

\* var offset = 10 in canvasFontHeightForText
ProbeOffset == 10

\* canvas.height = fontSize * 5
ProbeHeightFactor == 5

ProbeM == <<"M">>

ProbeDescender == <<"M", "q", "y", "p", "g", "j">>

\* the font sizes styles name; 0 is falsy and resolves to the default
FontSizes == {0, 1}

\* the font size drawText is called with, and the font it selects
DrawFontSizes == {1}

DrawFonts == {FontString(n, DEFAULT_FONT_FAMILY) : n \in DrawFontSizes}

Fonts == {FontString(n, DEFAULT_FONT_FAMILY) : n \in (FontSizes \ {0}) \cup {DEFAULT_FONT_SIZE}}

\* What fillText leaves on a probe surface is the drawing surface's
\* business: the pixels with alpha > 0 are an input, here one pixel in each
\* row of a set of rows.  A surface gives the rows of the 'M' probe and of
\* the 'Mqypgj' probe: no ink at all, ink in a single row, ink in several.
Surfaces == {[M |-> {}, D |-> {}],
             [M |-> {0}, D |-> {0, 1}],
             [M |-> {0, 1}, D |-> {0, 1, 2}]}

Rendering(rows) == {<<0, y>> : y \in rows}

\* the two scanning loops from row y on: the first and last row holding a
\* pixel of data with alpha > 0
RECURSIVE ScanRows(_, _, _, _, _, _)
ScanRows(data, w, h, y, first, last) ==
    IF y >= h THEN [first |-> first, last |-> last]
    ELSE IF \E p \in data : p[2] = y /\ p[1] \in 0..(w - 1)
         THEN ScanRows(data, w, h, y + 1,
                       IF y < first THEN y ELSE first,
                       IF y > last THEN y ELSE last)
         ELSE ScanRows(data, w, h, y + 1, first, last)

\* canvasFontHeightForText(context, object, text) on the caches c, with
\* font = context.font: the probe canvas is sized from the object's font,
\* fontOffsetCache[context.font] is written, last - first is returned.  The
\* objects of the calls resolve to fonts with a leading integer.
canvasFontHeightForText(c, font, object, text, data) ==
    LET fontSize == parseIntFont(resolveFont(object))[1]
        h == fontSize * ProbeHeightFactor
        w == measureText(text) * 2
        scan == ScanRows(data, w, h, 0, h, 0)
    IN  [height    |-> c.height,
         offset    |-> [c.offset EXCEPT ![font] = Def(scan.first - ProbeOffset)],
         descender |-> c.descender,
         ret       |-> scan.last - scan.first]

\* canvasFontHeight(context, object): the 'Mqypgj' probe, whose height is
\* written to fontDescenderCache[context.font], then the 'M' probe, whose
\* height is returned; the offset left is that of the 'M' probe
canvasFontHeight(c, font, object, dataD, dataM) ==
    LET d == canvasFontHeightForText(c, font, object, ProbeDescender, dataD)
        afterD == [height    |-> d.height,
                   offset    |-> d.offset,
                   descender |-> [d.descender EXCEPT ![font] = Def(d.ret)]]
    IN  canvasFontHeightForText(afterD, font, object, ProbeM, dataM)

\* fontHeight(context, object) under FONT_HEIGHT_METHOD 'canvas', on the
\* caches c, with font = context.font: a miss (!fontHeightCache[font]: no
\* entry, or an entry of 0) sets fontOffsetCache[font] to 0, runs
\* canvasFontHeight and caches what it returns
fontHeight(c, font, object, dataD, dataM) ==
    IF ~Truthy(c.height[font]) THEN
        LET zeroed == [height    |-> c.height,
                       offset    |-> [c.offset EXCEPT ![font] = Def(0)],
                       descender |-> c.descender]
            m == canvasFontHeight(zeroed, font, object, dataD, dataM)
        IN  [height    |-> [m.height EXCEPT ![font] = Def(m.ret)],
             offset    |-> m.offset,
             descender |-> m.descender,
             probed    |-> TRUE,
             ret       |-> m.ret]
    ELSE [height    |-> c.height,
          offset    |-> c.offset,
          descender |-> c.descender,
          probed    |-> FALSE,
          ret       |-> c.height[font][1]]

Caches == [height |-> fontHeightCache, offset |-> fontOffsetCache,
           descender |-> fontDescenderCache]

----------------------------------------------------------------------------
(* Rendering *)

\* the area renderWordWrapRows would return were empty rows to add nothing
RECURSIVE totalAreaSkippingEmpty(_, _, _)
totalAreaSkippingEmpty(pad, height, rows) ==
    IF Len(rows) = 0 THEN 0
    ELSE (IF Len(rows[1]) = 0 THEN 0 ELSE height * calculateRowWidth(pad, rows[1]))
         + totalAreaSkippingEmpty(pad, height, Tail(rows))

\* rows.forEach: totalArea += fontHeight * width
RECURSIVE totalAreaFrom(_, _, _)
totalAreaFrom(pad, height, rows) ==
    IF Len(rows) = 0 THEN 0
    ELSE height * calculateRowWidth(pad, rows[1])
         + totalAreaFrom(pad, height, Tail(rows))

\* the area renderWordWrapRows returns; the coordinates it paints at are
\* not state and are left out
renderWordWrapRows(pad, height, rows) == totalAreaFrom(pad, height, rows)

\* renderDecoration under _padding (undefined before the first drawText):
\* nothing is done for no decoration or 'none'; otherwise the context is
\* saved, and resolveColor or the read of _padding.left may throw before
\* the context is restored
renderDecoration(padding, decoration, color, alpha) ==
    IF ~(TruthyString(decoration) /\ decoration[1] # "none")
    THEN [saved |-> FALSE, threw |-> FALSE]
    ELSE [saved |-> TRUE,
          threw |-> resolveColor(color, alpha).threw \/ ~IsDef(padding)]

----------------------------------------------------------------------------
(* The calls.  Each is made while no call is in progress; Return hands the
   result to the caller, which ends the call. *)

Idle == [op |-> "none"]

Return ==
    /\ call # Idle
    /\ call' = Idle
    /\ UNCHANGED <<fontHeightCache, fontOffsetCache, fontDescenderCache,
                   thisPadding, saveDepth, measured>>

Style(padding, paddingLeft, paddingRight, paddingTop, paddingBottom) ==
    [padding |-> padding, paddingLeft |-> paddingLeft,
     paddingRight |-> paddingRight, paddingTop |-> paddingTop,
     paddingBottom |-> paddingBottom]

FontStyle(fontSize) == [font |-> Undef, fontSize |-> fontSize, fontFamily |-> Undef]

\* the objects fontHeight, canvasFontHeight and canvasFontHeightForText are
\* called with: the default font, and a font of size 1
MetricsObjects == {FontStyle(fontSize) : fontSize \in Opt(FontSizes \ {0})}

\* the texts canvasFontHeightForText is called with
ProbeTexts == {ProbeM, ProbeDescender}

\* the texts, widths, colors and alpha drawText is called with
DrawTexts == {<<>>, <<"a", Space, "b">>}

DrawWidths == {3}

\* the paddings drawText is called with
DrawPaddings == {Undef}

DrawPaddingLefts == Opt({2})

WellFormedColor == <<"#", "F", "f", "0", "0", "1", "a">>

ColorSamples == {WellFormedColor,
                 <<"0", "0", "f", "f", "0", "0">>,
                 <<"r", "e", "d">>,
                 <<"#", "f", "f", "f">>}

DrawColors == {WellFormedColor, <<"r", "e", "d">>}

Alphas == Opt({1})

\* the decorations drawText and renderWordWrapRows are called with
DrawDecorations == Opt({"underline"})

\* the decorations renderDecoration is called with
DecorationSamples == Opt({"", "none", "underline"})

\* the rows renderWordWrapRows is called with
RowSamples == {<<>>, << <<"a">>, <<"b">> >>}

\* drawText(context, object) on a canvas of the given width.  A TypeError in
\* resolveColor leaves drawText after context.save() and the write of
\* _padding; otherwise the rows are laid out and rendered, each with its
\* decoration (a throw in renderDecoration leaves both its save and
\* drawText's unmatched), and the context is restored.
DrawText(text, width, padding, paddingLeft, fontSize, decoration, color, alpha, dataD, dataM) ==
    LET object == Style(padding, paddingLeft, Undef, Undef, Undef)
        pad == resolvePadding(object)
        font == resolveFont(FontStyle(fontSize))
        fill == resolveColor(color, alpha)
        rows == makeWordWrapRows(pad, width, text)
        fh == fontHeight(Caches, font, FontStyle(fontSize), dataD, dataM)
        dec == renderDecoration(Def(pad), decoration, color, alpha)
        area == renderWordWrapRows(pad, fh.ret, rows)
    IN  /\ call = Idle
        /\ saveDepth < MaxDepth
        /\ thisPadding' = Def(pad)
        /\ IF fill.threw
           THEN /\ saveDepth' = saveDepth + 1
                /\ UNCHANGED <<fontHeightCache, fontOffsetCache,
                               fontDescenderCache, measured>>
                /\ call' = [op |-> "drawText", text |-> text, width |-> width,
                            color |-> color, alpha |-> alpha, font |-> font,
                            entryDepth |-> saveDepth, threw |-> TRUE]
           ELSE /\ fh.probed => measured[font] < MaxMeasure
                /\ fontHeightCache' = fh.height
                /\ fontOffsetCache' = fh.offset
                /\ fontDescenderCache' = fh.descender
                /\ measured' = IF fh.probed
                               THEN [measured EXCEPT ![font] = @ + 1]
                               ELSE measured
                /\ IF Len(rows) > 0 /\ dec.threw
                   THEN /\ saveDepth' = saveDepth + 2
                        /\ call' = [op |-> "drawText", text |-> text,
                                    width |-> width, color |-> color,
                                    alpha |-> alpha, font |-> font,
                                    entryDepth |-> saveDepth, threw |-> TRUE]
                   ELSE /\ saveDepth' = saveDepth
                        /\ call' = [op |-> "drawText", text |-> text,
                                    width |-> width, color |-> color,
                                    alpha |-> alpha, font |-> font,
                                    entryDepth |-> saveDepth, threw |-> FALSE,
                                    rows |-> rows, fontHeight |-> fh.ret,
                                    probed |-> fh.probed,
                                    dataM |-> IF fh.probed THEN dataM ELSE {},
                                    area |-> area]

\* CanvasText.renderWordWrapRows(context, object, rows) called directly,
\* with font = context.font: fontHeight runs first; the read of
\* _padding.left throws while _padding is undefined; a throw in the first
\* row's renderDecoration leaves its context.save() unmatched
RenderWordWrapRows(font, object, rows, decoration, color, alpha, dataD, dataM) ==
    LET fh == fontHeight(Caches, font, object, dataD, dataM)
        dec == renderDecoration(thisPadding, decoration, color, alpha)
        decThrew == IsDef(thisPadding) /\ Len(rows) > 0 /\ dec.threw
        threw == ~IsDef(thisPadding) \/ decThrew
    IN  /\ call = Idle
        /\ fh.probed => measured[font] < MaxMeasure
        /\ decThrew => saveDepth < MaxDepth
        /\ fontHeightCache' = fh.height
        /\ fontOffsetCache' = fh.offset
        /\ fontDescenderCache' = fh.descender
        /\ measured' = IF fh.probed
                       THEN [measured EXCEPT ![font] = @ + 1]
                       ELSE measured
        /\ saveDepth' = IF decThrew THEN saveDepth + 1 ELSE saveDepth
        /\ call' = IF threw
                   THEN [op |-> "renderWordWrapRows", font |-> font,
                         threw |-> TRUE]
                   ELSE [op |-> "renderWordWrapRows", font |-> font,
                         threw |-> FALSE,
                         area |-> renderWordWrapRows(thisPadding[1], fh.ret, rows)]
        /\ UNCHANGED thisPadding

\* CanvasText.renderDecoration(context, object, x, y, height, rowHeight,
\* width) called directly: a throw leaves its context.save() unmatched
RenderDecoration(decoration, color, alpha) ==
    LET dec == renderDecoration(thisPadding, decoration, color, alpha)
    IN  /\ call = Idle
        /\ dec.threw => saveDepth < MaxDepth
        /\ saveDepth' = IF dec.threw THEN saveDepth + 1 ELSE saveDepth
        /\ call' = [op |-> "renderDecoration", decoration |-> decoration,
                    saved |-> dec.saved, threw |-> dec.threw]
        /\ UNCHANGED <<fontHeightCache, fontOffsetCache, fontDescenderCache,
                       thisPadding, measured>>

\* CanvasText.fontHeight(context, object), with font = context.font
FontHeight(font, object, dataD, dataM) ==
    LET fh == fontHeight(Caches, font, object, dataD, dataM)
    IN  /\ call = Idle
        /\ fh.probed => measured[font] < MaxMeasure
        /\ fontHeightCache' = fh.height
        /\ fontOffsetCache' = fh.offset
        /\ fontDescenderCache' = fh.descender
        /\ measured' = IF fh.probed
                       THEN [measured EXCEPT ![font] = @ + 1]
                       ELSE measured
        /\ call' = [op |-> "fontHeight", font |-> font, probed |-> fh.probed,
                    dataM |-> IF fh.probed THEN dataM ELSE {},
                    fontHeight |-> fh.ret]
        /\ UNCHANGED <<thisPadding, saveDepth>>

\* CanvasText.canvasFontHeight(context, object) called directly, with
\* font = context.font: no cache is consulted, fontHeightCache is left alone
CanvasFontHeight(font, object, dataD, dataM) ==
    LET m == canvasFontHeight(Caches, font, object, dataD, dataM)
    IN  /\ call = Idle
        /\ fontOffsetCache' = m.offset
        /\ fontDescenderCache' = m.descender
        /\ call' = [op |-> "canvasFontHeight", font |-> font, ret |-> m.ret]
        /\ UNCHANGED <<fontHeightCache, thisPadding, saveDepth, measured>>

\* CanvasText.canvasFontHeightForText(context, object, text) called
\* directly, with font = context.font
CanvasFontHeightForText(font, object, text, data) ==
    LET m == canvasFontHeightForText(Caches, font, object, text, data)
    IN  /\ call = Idle
        /\ fontOffsetCache' = m.offset
        /\ call' = [op |-> "canvasFontHeightForText", font |-> font,
                    text |-> text, data |-> data, ret |-> m.ret]
        /\ UNCHANGED <<fontHeightCache, fontDescenderCache, thisPadding,
                       saveDepth, measured>>

\* CanvasText.makeWordWrapRows(context, object) after a drawText set _padding
MakeWordWrapRows(text, width) ==
    /\ call = Idle
    /\ IsDef(thisPadding)
    /\ call' = [op |-> "makeWordWrapRows", text |-> text, width |-> width,
                rows |-> makeWordWrapRows(thisPadding[1], width, text)]
    /\ UNCHANGED <<fontHeightCache, fontOffsetCache, fontDescenderCache,
                   thisPadding, saveDepth, measured>>

\* The earlier revision's makeWordWrapRows, on an object whose paddings its
\* resolvePadding has filled in
OldMakeWordWrapRows(text, width, paddingLeft, paddingRight) ==
    /\ call = Idle
    /\ call' = [op |-> "oldMakeWordWrapRows", text |-> text, width |-> width,
                paddingLeft |-> paddingLeft, paddingRight |-> paddingRight,
                rows |-> oldMakeWordWrapRows(paddingLeft, paddingRight, width, text)]
    /\ UNCHANGED <<fontHeightCache, fontOffsetCache, fontDescenderCache,
                   thisPadding, saveDepth, measured>>

PadSamples == {0, 5, 20}

ResolvePadding(object) ==
    /\ call = Idle
    /\ call' = [op |-> "resolvePadding", object |-> object,
                ret |-> resolvePadding(object)]
    /\ UNCHANGED <<fontHeightCache, fontOffsetCache, fontDescenderCache,
                   thisPadding, saveDepth, measured>>

ShadowSamples == {0, 5}

ResolveShadowOffset(object) ==
    /\ call = Idle
    /\ call' = [op |-> "resolveShadowOffset", object |-> object,
                ret |-> resolveShadowOffset(object)]
    /\ UNCHANGED <<fontHeightCache, fontOffsetCache, fontDescenderCache,
                   thisPadding, saveDepth, measured>>

\* the font strings and families styles name; the empty string is falsy
FontSamples == {EmptyFontString, FontString(3, "Arial")}

FamilySamples == {"", "Arial"}

ResolveFont(object) ==
    /\ call = Idle
    /\ call' = [op |-> "resolveFont", object |-> object,
                ret |-> resolveFont(object)]
    /\ UNCHANGED <<fontHeightCache, fontOffsetCache, fontDescenderCache,
                   thisPadding, saveDepth, measured>>

ResolveColor(color, alpha) ==
    /\ call = Idle
    /\ call' = [op |-> "resolveColor", color |-> color, alpha |-> alpha,
                ret |-> resolveColor(color, alpha)]
    /\ UNCHANGED <<fontHeightCache, fontOffsetCache, fontDescenderCache,
                   thisPadding, saveDepth, measured>>

----------------------------------------------------------------------------
(* Specifications *)

\* the CanvasText object as loaded: empty caches, no _padding
Init ==
    /\ fontHeightCache = [f \in Fonts |-> Undef]
    /\ fontOffsetCache = [f \in Fonts |-> Undef]
    /\ fontDescenderCache = [f \in Fonts |-> Undef]
    /\ thisPadding = Undef
    /\ saveDepth = 0
    /\ measured = [f \in Fonts |-> 0]
    /\ call = Idle

\* calls of drawText, and of the rendering and font metrics functions on a
\* context with the font drawText selects, in any order
Next ==
    \/ \E text \in DrawTexts, width \in DrawWidths,
          padding \in DrawPaddings, paddingLeft \in DrawPaddingLefts,
          fontSize \in DrawFontSizes, decoration \in DrawDecorations,
          color \in DrawColors, alpha \in Alphas, surface \in Surfaces :
            DrawText(text, width, padding, paddingLeft, Def(fontSize),
                     decoration, color, alpha,
                     Rendering(surface.D), Rendering(surface.M))
    \/ \E font \in DrawFonts, object \in MetricsObjects, rows \in RowSamples,
          decoration \in DrawDecorations, color \in DrawColors,
          surface \in Surfaces :
            RenderWordWrapRows(font, object, rows, decoration, color, Def(1),
                               Rendering(surface.D), Rendering(surface.M))
    \/ \E decoration \in DecorationSamples, color \in DrawColors,
          alpha \in Alphas :
            RenderDecoration(decoration, color, alpha)
    \/ \E font \in DrawFonts, object \in MetricsObjects, surface \in Surfaces :
            FontHeight(font, object, Rendering(surface.D), Rendering(surface.M))
    \/ \E font \in DrawFonts, object \in MetricsObjects, surface \in Surfaces :
            CanvasFontHeight(font, object, Rendering(surface.D), Rendering(surface.M))
    \/ \E font \in DrawFonts, object \in MetricsObjects, text \in ProbeTexts,
          surface \in Surfaces :
            CanvasFontHeightForText(font, object, text, Rendering(surface.M))
    \/ Return

Spec == Init /\ [][Next]_vars

\* The font metrics functions on their own, on contexts of every font
NextMetrics ==
    \/ \E font \in Fonts, object \in MetricsObjects, surface \in Surfaces :
            FontHeight(font, object, Rendering(surface.D), Rendering(surface.M))
    \/ \E font \in Fonts, object \in MetricsObjects, surface \in Surfaces :
            CanvasFontHeight(font, object, Rendering(surface.D), Rendering(surface.M))
    \/ \E font \in Fonts, object \in MetricsObjects, text \in ProbeTexts,
          surface \in Surfaces :
            CanvasFontHeightForText(font, object, text, Rendering(surface.M))
    \/ Return

SpecMetrics == Init /\ [][NextMetrics]_vars

\* The layout functions on their own: _padding as some drawText left it
InitWrap ==
    /\ fontHeightCache = [f \in Fonts |-> Undef]
    /\ fontOffsetCache = [f \in Fonts |-> Undef]
    /\ fontDescenderCache = [f \in Fonts |-> Undef]
    /\ \E left \in 0..MaxPad, right \in 0..MaxPad :
          thisPadding = Def(resolvePadding(
              Style(Undef, Def(left), Def(right), Undef, Undef)))
    /\ saveDepth = 0
    /\ measured = [f \in Fonts |-> 0]
    /\ call = Idle

NextWrap ==
    \/ \E text \in Texts, width \in (-1)..MaxWidth :
            MakeWordWrapRows(text, width)
    \/ Return

SpecWrap == InitWrap /\ [][NextWrap]_vars

\* The earlier revision's layout function on its own
NextWrapOld ==
    \/ \E text \in Texts, width \in (-1)..MaxWidth,
          paddingLeft \in 0..MaxPad, paddingRight \in 0..MaxPad :
            OldMakeWordWrapRows(text, width, paddingLeft, paddingRight)
    \/ Return

SpecWrapOld == Init /\ [][NextWrapOld]_vars

\* The style resolvers on their own
NextStyle ==
    \/ \E padding \in Opt(PadSamples), paddingLeft \in Opt(PadSamples),
          paddingRight \in Opt(PadSamples), paddingTop \in Opt(PadSamples),
          paddingBottom \in Opt(PadSamples) :
            ResolvePadding(Style(padding, paddingLeft, paddingRight,
                                 paddingTop, paddingBottom))
    \/ \E shadowOffset \in Opt(ShadowSamples), shadowOffsetX \in Opt(ShadowSamples),
          shadowOffsetY \in Opt(ShadowSamples) :
            ResolveShadowOffset([shadowOffset |-> shadowOffset,
                                 shadowOffsetX |-> shadowOffsetX,
                                 shadowOffsetY |-> shadowOffsetY])
    \/ \E font \in Opt(FontSamples), fontSize \in Opt(FontSizes),
          fontFamily \in Opt(FamilySamples) :
            ResolveFont([font |-> font, fontSize |-> fontSize,
                         fontFamily |-> fontFamily])
    \/ \E color \in ColorSamples, alpha \in Alphas :
            ResolveColor(color, alpha)
    \/ Return

SpecStyle == Init /\ [][NextStyle]_vars

----------------------------------------------------------------------------
(* Properties *)

\* the words of the rows, in order
RECURSIVE WordsOfRows(_)
WordsOfRows(rows) ==
    IF Len(rows) = 0 THEN <<>> ELSE Split(rows[1]) \o WordsOfRows(Tail(rows))

\* text with each run of spaces collapsed to a single space
RECURSIVE CollapseSpaces(_)
CollapseSpaces(text) ==
    IF Len(text) <= 1 THEN text
    ELSE IF text[1] = Space /\ text[2] = Space THEN CollapseSpaces(Tail(text))
    ELSE <<text[1]>> \o CollapseSpaces(Tail(text))

\* the padded width of a row, as the properties state it
PaddedWidth(row) == measureText(row) + thisPadding[1].left + thisPadding[1].right

\* C1: every row makeWordWrapRows returns has measured width
\* measureText(row).width + padding.left + padding.right <= W, except a row
\* of exactly one word whose own width exceeds W minus the horizontal
\* padding; the rows hold the words of the text whole and in order, and a
\* word that wide is alone on its row.
C1_RowsFit ==
    call.op = "makeWordWrapRows" =>
        /\ WordsOfRows(call.rows) = Split(call.text)
        /\ \A k \in 1..Len(call.rows) :
              LET row == call.rows[k]
                  room == call.width - (thisPadding[1].left + thisPadding[1].right)
              IN  /\ \/ PaddedWidth(row) <= call.width
                     \/ Len(Split(row)) = 1 /\ measureText(row) > room
                  /\ \A j \in 1..Len(Split(row)) :
                        measureText(Split(row)[j]) > room => Len(Split(row)) = 1

\* a word wider than the canvas alone on its row, beside a row that fits,
\* under a non-zero padding
C1_Witness ==
    /\ call.op = "makeWordWrapRows"
    /\ thisPadding[1].left + thisPadding[1].right > 0
    /\ \E k, j \in 1..Len(call.rows) :
          /\ Len(Split(call.rows[k])) = 1
          /\ PaddedWidth(call.rows[k]) > call.width
          /\ Len(call.rows[j]) > 0
          /\ PaddedWidth(call.rows[j]) <= call.width

\* C2: joining the rows makeWordWrapRows returns with single spaces gives
\* the text with each run of spaces collapsed to a single space.
C2_JoinCollapsesRuns ==
    call.op = "makeWordWrapRows" => Join(call.rows) = CollapseSpaces(call.text)

\* C3: across any calls of drawText and fontHeight, canvasFontHeight runs at
\* most once for each font, whatever height it produced.
C3_MeasuredAtMostOnce == \A f \in Fonts : measured[f] <= 1

\* C4: resolvePadding returns, side by side, the per-side value when it is
\* present, else the shorthand padding when it is present, else 0.
C4_PaddingPrecedence ==
    call.op = "resolvePadding" =>
        LET o == call.object
            expected(side) == IF side # Undef THEN side[1]
                              ELSE IF o.padding # Undef THEN o.padding[1]
                              ELSE 0
        IN  /\ call.ret.left = expected(o.paddingLeft)
            /\ call.ret.right = expected(o.paddingRight)
            /\ call.ret.top = expected(o.paddingTop)
            /\ call.ret.bottom = expected(o.paddingBottom)

\* {padding: 5, paddingLeft: 20} resolved to {left: 20, right: 5, top: 5,
\* bottom: 5}
C4_Witness ==
    /\ call.op = "resolvePadding"
    /\ call.object = Style(Def(5), Def(20), Undef, Undef, Undef)
    /\ call.ret = [left |-> 20, right |-> 5, top |-> 5, bottom |-> 5]

\* C5, as claimed: drawText of the empty text returns the area 0, whatever
\* the padding, the font height and the canvas.
C5_EmptyTextAreaZero ==
    (call.op = "drawText" /\ ~call.threw /\ call.text = <<>>) => call.area = 0

\* C5, amended: drawText of the empty text lays out exactly one empty row
\* and returns fontHeight * (padding.left + padding.right), the area of that
\* row's padding.
C5_EmptyTextAreaIsPadding ==
    (call.op = "drawText" /\ ~call.threw /\ call.text = <<>>) =>
        /\ call.rows = << <<>> >>
        /\ call.area = call.fontHeight * (thisPadding[1].left + thisPadding[1].right)

\* the empty text drawn under a padding and a font height that are not 0
C5_Witness ==
    /\ call.op = "drawText"
    /\ ~call.threw
    /\ call.text = <<>>
    /\ thisPadding[1].left + thisPadding[1].right > 0
    /\ call.fontHeight > 0
    /\ call.area > 0

\* C6: when the probe surface canvasFontHeightForText scans holds no pixel
\* with alpha > 0, the height it returns is 0; a fontHeight call whose 'M'
\* probe left no ink returns 0 and leaves the font's cached height at 0.
C6_NoInkHeightZero ==
    /\ (call.op = "canvasFontHeightForText" /\ call.data = {}) => call.ret = 0
    /\ (call.op = "fontHeight" /\ call.probed /\ call.dataM = {}) =>
            /\ call.fontHeight = 0
            /\ fontHeightCache[call.font] = Def(0)

\* C7: drawText given an alpha and a color that is no six-digit hex string
\* raises no error: it reaches the context.restore() matching its
\* context.save() and returns an area.
C7_MalformedColorNoError ==
    (call.op = "drawText" /\ IsDef(call.alpha) /\ HexExec(call.color) = <<>>) =>
        /\ ~call.threw
        /\ saveDepth = call.entryDepth

\* C8: on a canvas of width zero or less makeWordWrapRows returns one row
\* for each word of the split text, in order, each row that word.
C8_OneRowPerWord ==
    (call.op = "makeWordWrapRows" /\ call.width <= 0) =>
        call.rows = Split(call.text)

\* several words laid out on a canvas of no width
C8_Witness ==
    /\ call.op = "makeWordWrapRows"
    /\ call.width <= 0
    /\ Len(Split(call.text)) >= 2
    /\ Len(call.rows) = Len(Split(call.text))

\* C9: resolveShadowOffset returns shadowOffset on both axes whenever
\* shadowOffset is set, 0 included, and shadowOffsetX / shadowOffsetY only
\* when it is not set.
C9_ShadowOffsetWhenSet ==
    call.op = "resolveShadowOffset" =>
        LET o == call.object
        IN  IF o.shadowOffset # Undef
            THEN call.ret = [x |-> o.shadowOffset, y |-> o.shadowOffset]
            ELSE call.ret = [x |-> o.shadowOffsetX, y |-> o.shadowOffsetY]

\* C10: the earlier revision's makeWordWrapRows closes a row only when it
\* holds a word, so it returns no more rows than the text has words.
C10_NoMoreRowsThanWords ==
    call.op = "oldMakeWordWrapRows" => Len(call.rows) <= Len(Split(call.text))

====
